---- MODULE Spec2Model ----
(***************************************************************************)
(* Model of snapatac2-core/src/export.rs: the grouped BED export           *)
(* (export_insertions_as_bed), the per-group coverage track export         *)
(* (export_bigwig / export_insertions_as_bigwig) and the peak-calling      *)
(* orchestration (call_peaks / macs2).                                     *)
(*                                                                         *)
(* Strings are sequences of one-character strings, so that replace(),      *)
(* concatenation, Path::join and Path::ends_with are computed as the code  *)
(* computes them.                                                          *)
(***************************************************************************)
EXTENDS Integers, Sequences, FiniteSets, TLC

\* ------------------------------------------------------------------ bounds
MaxCells == 2       \* cells (rows) in the insertion source
MaxChunk == 2       \* cells per batch yielded by the insertion source
MaxRes == 2         \* largest bin width (resolution) of a track

\* ----------------------------------------------------------------- strings
GZ == <<".", "g", "z">>
BED_GZ == <<".", "b", "e", "d", ".", "g", "z">>
BED_TXT == <<".", "b", "e", "d">>

\* group labels: the empty label, and two labels that differ only by '/' vs '+'
Labels == { <<>>, <<"a", "/", "b">>, <<"a", "+", "b">> }

Dir == <<"o", "u", "t">>

\* (prefix, suffix) pairs handed to the export
NameChoices == { [prefix |-> <<>>, suffix |-> GZ],
                 [prefix |-> <<"p">>, suffix |-> BED_GZ],
                 [prefix |-> <<>>, suffix |-> BED_TXT] }

\* selections: Option<HashSet<&str>>
SelChoices == { [some |-> FALSE, set |-> {}] } \cup
              { [some |-> TRUE, set |-> s] :
                  s \in { {}, {<<"a", "/", "b">>},
                          {<<"a", "/", "b">>, <<"a", "+", "b">>},
                          {<<>>, <<"z">>} } }

SetMin(S) == CHOOSE x \in S : \A y \in S : x <= y

\* x.replace("/", "+")
Replace(x) == [i \in 1..Len(x) |-> IF x[i] = "/" THEN "+" ELSE x[i]]

\* prefix.to_string() + x.replace("/", "+").as_str() + suffix
FileName(prefix, x, suffix) == prefix \o Replace(x) \o suffix

\* dir.as_ref().join(name): the path as text
Join(dir, name) == dir \o <<"/">> \o name

\* the normal components of a path (empty components are dropped)
RECURSIVE Components(_)
Components(s) ==
    IF s = <<>> THEN <<>>
    ELSE LET idx == {i \in 1..Len(s) : s[i] = "/"} IN
         IF idx = {} THEN <<s>>
         ELSE LET i == SetMin(idx)
                  head == SubSeq(s, 1, i - 1)
                  rest == Components(SubSeq(s, i + 1, Len(s)))
              IN IF head = <<>> THEN rest ELSE <<head>> \o rest

IsSuffix(t, s) ==
    /\ Len(t) <= Len(s)
    /\ SubSeq(s, Len(s) - Len(t) + 1, Len(s)) = t

\* Path::ends_with(child): whole path components are compared
PathEndsWith(path, child) == IsSuffix(Components(child), Components(path))

\* `filename.ends_with(".gz")` on the PathBuf, as written in the export
IsGzTarget(path) == PathEndsWith(path, GZ)

\* group_by.iter().unique().collect(), then retain(|x| select.contains(x))
ActiveGroups(gb, sel) ==
    LET all == {gb[i] : i \in 1..Len(gb)} IN
    IF sel.some THEN {x \in all : x \in sel.set} ELSE all

\* ------------------------------------------------------- insertion records
Rec(s, v) == [chrom |-> "chr1", start |-> s, end |-> s + 1, value |-> v]

\* what one cell of the insertion source can hold
CellChoices == { <<>>, <<Rec(0, 2)>>, <<Rec(1, 1), Rec(2, 0)>> }

\* a barcode per cell, all distinct
Barcode(i) == [k \in 1..i |-> "c"]

RECURSIVE Flatten(_)
Flatten(ss) == IF ss = <<>> THEN <<>> ELSE Head(ss) \o Flatten(Tail(ss))

\* the source read in chunks: read_insertions(chunk)
RECURSIVE Chunks(_, _)
Chunks(cs, n) ==
    IF cs = <<>> THEN <<>>
    ELSE IF Len(cs) <= n THEN <<cs>>
    ELSE <<SubSeq(cs, 1, n)>> \o Chunks(SubSeq(cs, n + 1, Len(cs)), n)

VARIABLES
    group_by,     \* &Vec<&str>: group label of every cell
    barcodes,     \* &Vec<&str>: barcode of every cell
    selections,   \* Option<HashSet<&str>>
    names,        \* prefix and suffix
    cells,        \* everything the insertion source will yield, flat
    insertions,   \* the batches the iterator has not yielded yet
    files,        \* group -> [path, gz, out]: the open stream of the group
    created,      \* paths of the files created on disk
    accum,        \* try_fold accumulator: cells consumed so far
    pc,           \* position in export_insertions_as_bed
    ret,          \* returned value
    \* export_bigwig
    insertion,    \* .obsm["insertion"]: CsrMatrix<u8>, one row per cell
    ref_seq,      \* get_reference_seq_info(): chromosomes and their lengths
    resolution,   \* bin width of the track
    bw_pc,        \* position in export_bigwig
    todo,         \* groups the iterator of line 113 has not yielded yet
    tracks,       \* group -> the intervals handed to the track writer
    bw_created,   \* paths of the track files written
    bw_ret,       \* returned value
    \* call_peaks
    macs2_on_path,  \* whether which("macs2") resolves
    pk_pc,          \* position in call_peaks
    out_dir,        \* the output directory has been created
    tmp_dir,        \* the temporary directory has been created
    export_calls,   \* number of calls of export_bed
    bed_files,      \* `files`: group -> BED file, as export_bed returned it
    task,           \* group -> state of its parallel task
    proc,           \* group -> the external process of its task
    out_files,      \* paths of the peak files written
    pk_ret          \* returned value

bedVars == <<group_by, barcodes, selections, names, cells, insertions,
             files, created, accum, pc, ret>>

bwVars == <<insertion, ref_seq, resolution, bw_pc, todo, tracks, bw_created,
            bw_ret>>

pkVars == <<macs2_on_path, pk_pc, out_dir, tmp_dir, export_calls, bed_files,
            task, proc, out_files, pk_ret>>

vars == <<bedVars, bwVars, pkVars>>

\* ------------------------------------------------ export_insertions_as_bed
\* ExpandRecord with a fault injected: one line per record, whatever its count
ExpandRecordOnce(x, bc) ==
    <<[chrom |-> x.chrom, start |-> x.start, end |-> x.end, name |-> bc]>>

\* vec![bed; x.value as usize]: the 4-column record repeated `value` times
ExpandRecord(x, bc) ==
    [k \in 1..x.value |->
        [chrom |-> x.chrom, start |-> x.start, end |-> x.end, name |-> bc]]

\* ins.into_iter().map(..).flatten(): every line of one cell
CellLines(ins, bc) == Flatten([j \in 1..Len(ins) |-> ExpandRecord(ins[j], bc)])

\* GlobalIndex with a fault injected: the index within the batch, the offset
\* forgotten
LocalIndex(acc, i) == i

\* accum + i, the index into group_by and barcodes (i counts from 1 here)
GlobalIndex(acc, i) == acc + i

\* the closure body for one cell: files.get_mut(group_by[accum + i])
WriteCell(fs, ins, idx) ==
    IF group_by[idx] \in DOMAIN fs
    THEN [fs EXCEPT ![group_by[idx]].out = @ \o CellLines(ins, barcodes[idx])]
    ELSE fs

\* x.into_iter().enumerate().try_for_each(..) over cells i..n of batch x
RECURSIVE WriteCells(_, _, _, _, _)
WriteCells(fs, x, acc, i, n) ==
    IF i > n THEN fs
    ELSE WriteCells(WriteCell(fs, x[i], GlobalIndex(acc, i)), x, acc, i + 1, n)

OpenedFile(x) ==
    LET path == Join(Dir, FileName(names.prefix, x, names.suffix)) IN
    [path |-> path, gz |-> IsGzTarget(path), out |-> <<>>]

\* the variables of the operations a specification does not run
BedIdle ==
    /\ barcodes = <<>> /\ cells = <<>> /\ insertions = <<>> /\ files = <<>>
    /\ created = {} /\ accum = 0 /\ pc = "idle"
    /\ ret = [state |-> "none", map |-> <<>>]

BwIdle ==
    /\ insertion = <<>> /\ ref_seq = <<>> /\ resolution = 1 /\ bw_pc = "idle"
    /\ todo = {} /\ tracks = <<>> /\ bw_created = {}
    /\ bw_ret = [state |-> "none", map |-> <<>>]

PkIdle ==
    /\ macs2_on_path = TRUE /\ pk_pc = "idle" /\ out_dir = FALSE
    /\ tmp_dir = FALSE /\ export_calls = 0 /\ bed_files = <<>> /\ task = <<>>
    /\ proc = <<>> /\ out_files = {}
    /\ pk_ret = [state |-> "none", map |-> <<>>]

NoRet == [state |-> "none", map |-> <<>>]
ErrRet == [state |-> "err", map |-> <<>>]

BedInit ==
    /\ \E n \in 1..MaxCells :
          /\ group_by \in [1..n -> Labels]
          /\ cells \in [1..n -> CellChoices]
          /\ barcodes = [i \in 1..n |-> Barcode(i)]
    /\ selections \in SelChoices
    /\ names \in NameChoices
    /\ \E chunk \in 1..MaxChunk : insertions = Chunks(cells, chunk)
    /\ files = <<>>
    /\ created = {}
    /\ accum = 0
    /\ pc = "open"
    /\ ret = NoRet
    /\ BwIdle
    /\ PkIdle

\* lines 204-220: the active groups, the directory, one stream per group
OpenFiles ==
    /\ pc = "open"
    /\ files' = [x \in ActiveGroups(group_by, selections) |-> OpenedFile(x)]
    /\ created' = {files'[x].path : x \in DOMAIN files'}
    /\ pc' = "fold"
    /\ UNCHANGED <<group_by, barcodes, selections, names, cells, insertions,
                   accum, ret>>
    /\ UNCHANGED <<bwVars, pkVars>>

\* lines 206-207, 212-213: create_dir_all or File::create fails, `?` returns
OpenFilesFail ==
    /\ pc = "open"
    /\ \E part \in SUBSET ActiveGroups(group_by, selections) :
          /\ part # ActiveGroups(group_by, selections)
               \/ ActiveGroups(group_by, selections) = {}
          /\ created' = {OpenedFile(x).path : x \in part}
    /\ pc' = "done"
    /\ ret' = ErrRet
    /\ UNCHANGED <<group_by, barcodes, selections, names, cells, insertions,
                   files, accum>>
    /\ UNCHANGED <<bwVars, pkVars>>

\* lines 222-237: one step of try_fold, a whole batch
ProcessBatch ==
    /\ pc = "fold"
    /\ insertions # <<>>
    /\ LET x == Head(insertions) IN
         /\ files' = WriteCells(files, x, accum, 1, Len(x))
         /\ accum' = accum + Len(x)
    /\ insertions' = Tail(insertions)
    /\ UNCHANGED <<group_by, barcodes, selections, names, cells, created,
                   pc, ret>>
    /\ UNCHANGED <<bwVars, pkVars>>

\* line 233: writeln! fails at cell i of the batch, `?` returns
WriteFail ==
    /\ pc = "fold"
    /\ insertions # <<>>
    /\ LET x == Head(insertions) IN
         \E i \in 1..Len(x) :
            /\ group_by[GlobalIndex(accum, i)] \in DOMAIN files
            /\ CellLines(x[i], barcodes[GlobalIndex(accum, i)]) # <<>>
            /\ files' = WriteCells(files, x, accum, 1, i - 1)
    /\ pc' = "done"
    /\ ret' = ErrRet
    /\ UNCHANGED <<group_by, barcodes, selections, names, cells, insertions,
                   created, accum>>
    /\ UNCHANGED <<bwVars, pkVars>>

\* line 239: the iterator is exhausted, the group -> path map is returned
Finish ==
    /\ pc = "fold"
    /\ insertions = <<>>
    /\ pc' = "done"
    /\ ret' = [state |-> "ok", map |-> [x \in DOMAIN files |-> files[x].path]]
    /\ UNCHANGED <<group_by, barcodes, selections, names, cells, insertions,
                   files, created, accum>>
    /\ UNCHANGED <<bwVars, pkVars>>

\* -------------------------------------------- export_insertions_as_bigwig
E(c, v) == [col |-> c, val |-> v]

\* what one row of the insertion matrix can hold (columns ascending; a
\* CsrMatrix may store an explicit 0)
RowChoices == { <<>>,
                <<E(0, 1)>>,
                <<E(0, 1), E(2, 1)>>,
                <<E(3, 0)>>,
                <<E(1, 2), E(5, 1)>>,
                <<E(2, 1), E(3, 1)>> }

\* reference sequences; every choice is 6 bases long in total
RefChoices == { << [chrom |-> "chr1", size |-> 3], [chrom |-> "chr2", size |-> 3] >>,
                << [chrom |-> "chr1", size |-> 4], [chrom |-> "chr2", size |-> 2] >> }

BwLabels == { <<"a", "/", "b">>, <<"a", "+", "b">> }

BwSelChoices == { [some |-> FALSE, set |-> {}],
                  [some |-> TRUE, set |-> {<<"a", "/", "b">>}],
                  [some |-> TRUE, set |-> {<<"z">>}] }

RECURSIVE SumSeq(_)
SumSeq(s) == IF s = <<>> THEN 0 ELSE Head(s) + SumSeq(Tail(s))

\* a set of naturals in ascending order: the iteration order of a BTreeMap
RECURSIVE SortedSeq(_)
SortedSeq(S) ==
    IF S = {} THEN <<>> ELSE <<SetMin(S)>> \o SortedSeq(S \ {SetMin(S)})

\* col_indices().zip(values()): the stored entries of all rows, row by row
Entries(m) == Flatten(m)

\* lines 258-262: counts.entry(i / resolution).or_insert(0) += v
Counts(m, res) ==
    LET es == Entries(m)
        bins == {es[j].col \div res : j \in 1..Len(es)}
    IN [k \in bins |->
          SumSeq([j \in 1..Len(es) |->
                    IF es[j].col \div res = k THEN es[j].val ELSE 0])]

\* line 265: counts.values().sum()
TotalCount(counts) ==
    SumSeq([j \in 1..Cardinality(DOMAIN counts) |->
              counts[SortedSeq(DOMAIN counts)[j]]])

\* lines 266-267 and 273: (v as f32) / norm_factor, with
\* norm_factor = (total / 1e6) * (resolution / 1e3).  The quotient is kept as
\* the fraction num/den scaled by 1e9; 0/0 is NaN.
NormValue(v, total, res) ==
    IF total = 0 THEN [nan |-> TRUE, num |-> v, den |-> 0]
    ELSE [nan |-> FALSE, num |-> v, den |-> total * res]

\* f32 ==: NaN equals nothing, itself included
ValueEq(a, b) == ~a.nan /\ ~b.nan /\ a.num * b.den = b.num * a.den

\* GBaseIndex::read_from_anndata: each chromosome with the offset of its first
\* base in the concatenated genome
GenomeIndexOf(ref) ==
    [j \in 1..Len(ref) |->
        [chrom |-> ref[j].chrom,
         offset |-> SumSeq([h \in 1..(j - 1) |-> ref[h].size])]]

\* GenomeIndex::lookup_region(i): the chromosome holding flat offset i and
\* the one-base region at i within it
LookupRegion(index, i) ==
    LET j == CHOOSE j \in 1..Len(index) :
                 /\ index[j].offset <= i
                 /\ \A h \in 1..Len(index) :
                       index[h].offset <= i => index[h].offset <= index[j].offset
    IN [chrom |-> index[j].chrom,
        start |-> i - index[j].offset,
        end |-> i - index[j].offset + 1]

\* lines 105-106, 157-158: the chromosome-size table
ChromSizes(ref) ==
    [c \in {ref[j].chrom : j \in 1..Len(ref)} |->
        ref[CHOOSE j \in 1..Len(ref) : ref[j].chrom = c].size]

\* lines 270-273: the interval of bin k, before merging
BinInterval(index, res, k, v, total) ==
    LET region == LookupRegion(index, k * res) IN
    [chrom |-> region.chrom, start |-> region.start,
     end |-> region.start + res, value |-> NormValue(v, total, res)]

\* lines 270-273: one interval per counted bin, in ascending bin order
BinIntervals(m, index, res) ==
    LET counts == Counts(m, res)
        ks == SortedSeq(DOMAIN counts)
    IN [j \in 1..Len(ks) |->
          BinInterval(index, res, ks[j], counts[ks[j]], TotalCount(counts))]

\* the key of line 274: (x.chrom().to_string(), x.value)
SameKey(a, b) == a.chrom = b.chrom /\ ValueEq(a.value, b.value)

\* lines 274-280: group_by over consecutive elements with equal key; the first
\* of each group takes the end of the last
RECURSIVE MergeRuns(_)
MergeRuns(s) ==
    IF s = <<>> THEN <<>>
    ELSE LET n == SetMin({j \in 1..Len(s) :
                            j = Len(s) \/ ~SameKey(s[j], s[j + 1])})
         IN <<[s[1] EXCEPT !.end = s[n].end]>>
            \o MergeRuns(SubSeq(s, n + 1, Len(s)))

\* Clip with a fault injected: only the last interval of the whole track is cut
ClipLastOnly(s, ref) ==
    [j \in 1..Len(s) |->
        IF j = Len(s) /\ s[j].end > ChromSizes(ref)[s[j].chrom]
        THEN [s[j] EXCEPT !.end = ChromSizes(ref)[s[j].chrom]]
        ELSE s[j]]

\* lines 283-289: the last interval of every run of one chromosome is cut to
\* the chromosome's size
Clip(s, ref) ==
    [j \in 1..Len(s) |->
        IF /\ (j = Len(s) \/ s[j + 1].chrom # s[j].chrom)
           /\ s[j].end > ChromSizes(ref)[s[j].chrom]
        THEN [s[j] EXCEPT !.end = ChromSizes(ref)[s[j].chrom]]
        ELSE s[j]]

\* lines 257-307: what export_insertions_as_bigwig hands to BigWigWrite
ExportInsertionsAsBigwig(m, ref, res) ==
    Clip(MergeRuns(BinIntervals(m, GenomeIndexOf(ref), res)), ref)

\* lines 117-119: the matrix read for group x
InsertionOf(x) == insertion

BwInit ==
    /\ \E n \in 1..MaxCells :
          /\ group_by \in [1..n -> BwLabels]
          /\ insertion \in [1..n -> RowChoices]
    /\ selections \in BwSelChoices
    /\ names = [prefix |-> <<>>, suffix |-> <<".", "b", "w">>]
    /\ ref_seq \in RefChoices
    /\ resolution \in 1..MaxRes
    /\ bw_pc = "start"
    /\ todo = {}
    /\ tracks = <<>>
    /\ bw_created = {}
    /\ bw_ret = NoRet
    /\ BedIdle
    /\ PkIdle

\* lines 105-112: the size table, the genome index, the groups, the directory
BwSetup ==
    /\ bw_pc = "start"
    /\ todo' = ActiveGroups(group_by, selections)
    /\ bw_pc' = "groups"
    /\ UNCHANGED <<insertion, ref_seq, resolution, tracks, bw_created, bw_ret>>
    /\ UNCHANGED <<bedVars, pkVars>>

\* lines 111-112: create_dir_all fails, `?` returns
BwSetupFail ==
    /\ bw_pc = "start"
    /\ bw_pc' = "done"
    /\ bw_ret' = ErrRet
    /\ UNCHANGED <<insertion, ref_seq, resolution, todo, tracks, bw_created>>
    /\ UNCHANGED <<bedVars, pkVars>>

\* lines 113-127: the closure for one group (a HashSet yields in any order)
BwExportGroup ==
    /\ bw_pc = "groups"
    /\ \E x \in todo :
          /\ tracks' = [g \in DOMAIN tracks \cup {x} |->
                          IF g = x
                          THEN ExportInsertionsAsBigwig(InsertionOf(x), ref_seq,
                                                        resolution)
                          ELSE tracks[g]]
          /\ bw_created' = bw_created \cup
                 {Join(Dir, FileName(names.prefix, x, names.suffix))}
          /\ todo' = todo \ {x}
    /\ UNCHANGED <<insertion, ref_seq, resolution, bw_pc, bw_ret>>
    /\ UNCHANGED <<bedVars, pkVars>>

\* line 128: collect() the group -> path map
BwFinish ==
    /\ bw_pc = "groups"
    /\ todo = {}
    /\ bw_pc' = "done"
    /\ bw_ret' = [state |-> "ok",
                  map |-> [x \in DOMAIN tracks |->
                             Join(Dir, FileName(names.prefix, x, names.suffix))]]
    /\ UNCHANGED <<insertion, ref_seq, resolution, todo, tracks, bw_created>>
    /\ UNCHANGED <<bedVars, pkVars>>

BwNext ==
    \/ BwSetup
    \/ BwSetupFail
    \/ BwExportGroup
    \/ BwFinish

SpecBW == BwInit /\ [][BwNext]_vars

\* -------------------------------------------------------------- call_peaks
TmpDir == Join(Dir, <<"t", "m", "p">>)

NoProc == [ran |-> FALSE, exit |-> 0, produced |-> FALSE]

\* Macs2Found with a fault injected: the check of the search path left out
Macs2Assumed == TRUE

\* line 55: which("macs2").is_ok()
Macs2Found == macs2_on_path

\* lines 70-72: the peak file of group `key` (the names used here have an
\* extension, as `out_file.extension().unwrap()` at line 342 requires)
OutFile(key) == Join(Dir, FileName(names.prefix, key, names.suffix))

PkUnchangedOthers ==
    UNCHANGED <<group_by, barcodes, selections, names, cells, insertions,
                files, created, accum, pc, ret, bwVars, macs2_on_path>>

PkInit ==
    /\ \E n \in 1..MaxCells : group_by \in [1..n -> Labels]
    /\ selections \in SelChoices
    /\ names = [prefix |-> <<"p">>, suffix |-> GZ]
    /\ macs2_on_path \in BOOLEAN
    /\ pk_pc = "start"
    /\ out_dir = FALSE
    /\ tmp_dir = FALSE
    /\ export_calls = 0
    /\ bed_files = <<>>
    /\ task = <<>>
    /\ proc = <<>>
    /\ out_files = {}
    /\ pk_ret = NoRet
    /\ BedIdle
    /\ BwIdle

\* lines 54-57: ensure!(which("macs2").is_ok(), ..)
CheckMacs2 ==
    /\ pk_pc = "start"
    /\ IF Macs2Found
       THEN pk_pc' = "mkdir" /\ pk_ret' = pk_ret
       ELSE pk_pc' = "done" /\ pk_ret' = ErrRet
    /\ UNCHANGED <<out_dir, tmp_dir, export_calls, bed_files, task, proc,
                   out_files>>
    /\ PkUnchangedOthers

\* line 59: create_dir_all(&dir)?
CreateOutDir ==
    /\ pk_pc = "mkdir"
    /\ \E io_ok \in BOOLEAN :
          IF io_ok
          THEN out_dir' = TRUE /\ pk_pc' = "tmpdir" /\ pk_ret' = pk_ret
          ELSE out_dir' = out_dir /\ pk_pc' = "done" /\ pk_ret' = ErrRet
    /\ UNCHANGED <<tmp_dir, export_calls, bed_files, task, proc, out_files>>
    /\ PkUnchangedOthers

\* lines 60-61: Builder::new().tempdir_in(&dir)?
CreateTmpDir ==
    /\ pk_pc = "tmpdir"
    /\ \E io_ok \in BOOLEAN :
          IF io_ok
          THEN tmp_dir' = TRUE /\ pk_pc' = "export" /\ pk_ret' = pk_ret
          ELSE tmp_dir' = tmp_dir /\ pk_pc' = "done" /\ pk_ret' = ErrRet
    /\ UNCHANGED <<out_dir, export_calls, bed_files, task, proc, out_files>>
    /\ PkUnchangedOthers

\* lines 64-67: export_bed(group_by, group_by, selections, &tmp_dir, "",
\* ".bed.gz")?, then the genome size
ExportBed ==
    /\ pk_pc = "export"
    /\ export_calls' = export_calls + 1
    /\ \E io_ok \in BOOLEAN :
          IF io_ok
          THEN /\ bed_files' = [x \in ActiveGroups(group_by, selections) |->
                                  Join(TmpDir, FileName(<<>>, x, BED_GZ))]
               /\ task' = [x \in ActiveGroups(group_by, selections) |-> "idle"]
               /\ proc' = [x \in ActiveGroups(group_by, selections) |-> NoProc]
               /\ pk_pc' = "peaks"
               /\ pk_ret' = pk_ret
          ELSE /\ UNCHANGED <<bed_files, task, proc>>
               /\ pk_pc' = "done"
               /\ pk_ret' = ErrRet
    /\ UNCHANGED <<out_dir, tmp_dir, out_files>>
    /\ PkUnchangedOthers

\* lines 322-336: the task of group `key` makes its directory and runs macs2;
\* `.output()` is an error only when the process cannot be run
TaskSpawn ==
    /\ pk_pc = "peaks"
    /\ \E key \in DOMAIN task :
          /\ task[key] = "idle"
          /\ \E io_ok \in BOOLEAN :
                IF io_ok /\ macs2_on_path
                THEN /\ task' = [task EXCEPT ![key] = "running"]
                     /\ proc' = [proc EXCEPT ![key].ran = TRUE]
                ELSE /\ task' = [task EXCEPT ![key] = "err"]
                     /\ proc' = proc
    /\ UNCHANGED <<pk_pc, out_dir, tmp_dir, export_calls, bed_files, out_files,
                   pk_ret>>
    /\ PkUnchangedOthers

\* the external process ends: any exit status, with or without its
\* NA_peaks.narrowPeak
ProcExit ==
    /\ pk_pc = "peaks"
    /\ \E key \in DOMAIN task :
          /\ task[key] = "running"
          /\ \E status \in {0, 1}, produced \in BOOLEAN :
                proc' = [proc EXCEPT ![key] =
                           [ran |-> TRUE, exit |-> status, produced |-> produced]]
          /\ task' = [task EXCEPT ![key] = "exited"]
    /\ UNCHANGED <<pk_pc, out_dir, tmp_dir, export_calls, bed_files, out_files,
                   pk_ret>>
    /\ PkUnchangedOthers

\* lines 336-359 and 74-75: `.output()` returned Ok, whatever the exit status;
\* the peak file is opened (an error when it is missing), rewritten to
\* out_file, and the task yields Ok((key, out_file))
TaskCollectOutput ==
    /\ pk_pc = "peaks"
    /\ \E key \in DOMAIN task :
          /\ task[key] = "exited"
          /\ \E io_ok \in BOOLEAN :
                IF proc[key].produced /\ io_ok
                THEN /\ task' = [task EXCEPT ![key] = "ok"]
                     /\ out_files' = out_files \cup {OutFile(key)}
                ELSE /\ task' = [task EXCEPT ![key] = "err"]
                     /\ out_files' = out_files
    /\ UNCHANGED <<pk_pc, out_dir, tmp_dir, export_calls, bed_files, proc,
                   pk_ret>>
    /\ PkUnchangedOthers

\* line 76: collect() into Result<HashMap>: every task that started has
\* ended; after an error the tasks not yet started may be skipped
CollectPeaks ==
    /\ pk_pc = "peaks"
    /\ \A key \in DOMAIN task : task[key] \in {"idle", "ok", "err"}
    /\ \/ \A key \in DOMAIN task : task[key] # "idle"
       \/ \E key \in DOMAIN task : task[key] = "err"
    /\ pk_ret' = IF \E key \in DOMAIN task : task[key] = "err"
                 THEN ErrRet
                 ELSE [state |-> "ok",
                       map |-> [key \in DOMAIN task |-> OutFile(key)]]
    /\ pk_pc' = "done"
    /\ UNCHANGED <<out_dir, tmp_dir, export_calls, bed_files, task, proc,
                   out_files>>
    /\ PkUnchangedOthers

PkNext ==
    \/ CheckMacs2
    \/ CreateOutDir
    \/ CreateTmpDir
    \/ ExportBed
    \/ TaskSpawn
    \/ ProcExit
    \/ TaskCollectOutput
    \/ CollectPeaks

SpecPeaks == PkInit /\ [][PkNext]_vars

\* ================================================================== claims

\* the active set as the data model states it: unique(group_by) intersected
\* with selections, every group when selections is absent
ActiveSet ==
    {group_by[i] : i \in 1..Len(group_by)} \cap
    (IF selections.some THEN selections.set
     ELSE {group_by[i] : i \in 1..Len(group_by)})

RECURSIVE SumLines(_, _)
SumLines(fs, S) ==
    IF S = {} THEN 0
    ELSE LET g == CHOOSE g \in S : TRUE IN Len(fs[g].out) + SumLines(fs, S \ {g})

CellCount(i) == SumSeq([j \in 1..Len(cells[i]) |-> cells[i][j].value])

\* the cell whose barcode a line carries (barcodes are distinct)
CellOf(line) == CHOOSE i \in 1..Len(barcodes) : barcodes[i] = line.name

\* the lines of group g from the first n cells, cell by cell in source order
RECURSIVE ExpectedLines(_, _)
ExpectedLines(g, n) ==
    IF n = 0 THEN <<>>
    ELSE ExpectedLines(g, n - 1) \o
         (IF group_by[n] = g
          THEN Flatten([j \in 1..Len(cells[n]) |->
                          [k \in 1..cells[n][j].value |->
                              [chrom |-> cells[n][j].chrom,
                               start |-> cells[n][j].start,
                               end |-> cells[n][j].end,
                               name |-> barcodes[n]]]])
          ELSE <<>>)

\* C1: when the BED export has completed, the lines written over all group
\* streams number the sum of the `value` counts of the records of the cells
\* whose group is active, and no line comes from a cell of a filtered-out
\* group.
C1_LinesEqualActiveCounts ==
    (pc = "done" /\ ret.state = "ok") =>
        /\ SumLines(files, DOMAIN files) =
              SumSeq([i \in 1..Len(cells) |->
                        IF group_by[i] \in ActiveSet THEN CellCount(i) ELSE 0])
        /\ \A g \in DOMAIN files : \A p \in 1..Len(files[g].out) :
              group_by[CellOf(files[g].out[p])] \in ActiveSet

\* C1 witness: a completed export that wrote lines, expanded a record of
\* count 2, and dropped the records of a cell of a filtered-out group
C1_Witness ==
    /\ pc = "done" /\ ret.state = "ok"
    /\ SumLines(files, DOMAIN files) > 0
    /\ \E i \in 1..Len(cells) :
          group_by[i] \in ActiveSet /\ cells[i] = <<Rec(0, 2)>>
    /\ \E i \in 1..Len(cells) :
          group_by[i] \notin ActiveSet /\ CellCount(i) > 0

\* C2: the export creates exactly one distinct file per active group label,
\* named <prefix><label with '/' replaced by '+'><suffix>; no two active
\* groups share a path and no file is created for a label outside the
\* selection.
C2_OneFilePerActiveGroup ==
    (pc \in {"fold", "done"} /\ ret.state # "err") =>
        /\ DOMAIN files = ActiveSet
        /\ Cardinality(created) = Cardinality(ActiveSet)
        /\ \A x \in DOMAIN files :
              files[x].path = Dir \o <<"/">> \o names.prefix \o
                  [i \in 1..Len(x) |-> IF x[i] = "/" THEN "+" ELSE x[i]]
                  \o names.suffix
        /\ \A x, y \in DOMAIN files : x # y => files[x].path # files[y].path
        /\ selections.some => DOMAIN files \subseteq selections.set

\* C3: a group's stream goes through the gzip filter exactly when the name of
\* its file ends in ".gz".
C3_GzipIffGzSuffix ==
    \A g \in DOMAIN files : files[g].gz = IsSuffix(GZ, files[g].path)

\* C8: in every group's stream the lines stand in the order in which their
\* cells were yielded, each line carries the barcode at its cell's global
\* index, and while no write has failed the stream holds exactly the lines of
\* the group's cells consumed so far.
C8_GroupLinesInCellOrder ==
    \A g \in DOMAIN files :
        /\ \A p, q \in 1..Len(files[g].out) :
              p < q => CellOf(files[g].out[p]) <= CellOf(files[g].out[q])
        /\ \A p \in 1..Len(files[g].out) :
              LET line == files[g].out[p] IN
              /\ group_by[CellOf(line)] = g
              /\ \E j \in 1..Len(cells[CellOf(line)]) :
                    /\ cells[CellOf(line)][j].start = line.start
                    /\ cells[CellOf(line)][j].value > 0
        /\ ret.state # "err" => files[g].out = ExpectedLines(g, accum)

\* C8 witness: a completed export in which one stream holds lines of two
\* cells, the second of them beyond the first cell of the source
C8_Witness ==
    /\ pc = "done" /\ ret.state = "ok"
    /\ \E g \in DOMAIN files : \E p, q \in 1..Len(files[g].out) :
          /\ p < q
          /\ CellOf(files[g].out[p]) < CellOf(files[g].out[q])

\* the rows of the insertion matrix that belong to group g
RECURSIVE RowsOf(_, _)
RowsOf(g, n) ==
    IF n = 0 THEN <<>>
    ELSE RowsOf(g, n - 1) \o (IF group_by[n] = g THEN <<insertion[n]>> ELSE <<>>)

\* C4: the track written for group g is aggregated only from the rows of the
\* insertion matrix whose group_by label is g.
C4_TrackFromOwnCells ==
    \A g \in DOMAIN tracks :
        tracks[g] = ExportInsertionsAsBigwig(RowsOf(g, Len(insertion)), ref_seq,
                                             resolution)

RefLen(c) == ref_seq[CHOOSE j \in 1..Len(ref_seq) : ref_seq[j].chrom = c].size

C9_IntervalCoversOnlyCountedBins ==
    (\A j \in 1..Len(Entries(insertion)) : Entries(insertion)[j].val # 0) =>
    \A g \in DOMAIN tracks : \A j \in 1..Len(tracks[g]) :
        \A pos \in tracks[g][j].start..(tracks[g][j].end - 1) :
            \E k \in DOMAIN Counts(insertion, resolution) :
                LET c == Counts(insertion, resolution)
                    b == BinInterval(GenomeIndexOf(ref_seq), resolution, k, c[k],
                                     TotalCount(c))
                IN /\ c[k] # 0
                   /\ b.chrom = tracks[g][j].chrom
                   /\ b.start <= pos /\ pos < b.end
                   /\ b.value = tracks[g][j].value

\* C10: when the total accumulated count is zero the track has no interval,
\* and no interval ever carries the value of a division by a zero factor.
C10_ZeroTotalEmptyTrack ==
    \A g \in DOMAIN tracks :
        /\ TotalCount(Counts(insertion, resolution)) = 0 => tracks[g] = <<>>
        /\ \A j \in 1..Len(tracks[g]) : ~tracks[g][j].value.nan

\* C6: when macs2 is not on the search path, call_peaks returns an error as
\* its first action: no directory is created, export_bed is not called, no
\* file is written and no process is started.
C6_MissingMacs2FailsFirst ==
    ~macs2_on_path =>
        /\ pk_pc \in {"start", "done"}
        /\ pk_pc = "done" => pk_ret.state = "err"
        /\ ~out_dir /\ ~tmp_dir
        /\ export_calls = 0
        /\ bed_files = <<>> /\ out_files = {}
        /\ \A key \in DOMAIN proc : ~proc[key].ran

\* C6 witness: call_peaks has returned its error with macs2 missing
C6_Witness == ~macs2_on_path /\ pk_pc = "done" /\ pk_ret.state = "err"

\* C7: if a group's process exits with a non-zero status or leaves no output
\* file, call_peaks returns an error; it returns a mapping only when every
\* group's process succeeded, with one entry per active group.
C7_AnyGroupFailureFailsCall ==
    pk_pc = "done" =>
        /\ (\E key \in DOMAIN proc :
               proc[key].ran /\ (proc[key].exit # 0 \/ ~proc[key].produced))
           => pk_ret.state = "err"
        /\ pk_ret.state = "ok" =>
              /\ DOMAIN pk_ret.map = ActiveSet
              /\ \A key \in ActiveSet :
                    proc[key].ran /\ proc[key].exit = 0 /\ proc[key].produced

Init == BedInit

Next ==
    \/ OpenFiles
    \/ OpenFilesFail
    \/ ProcessBatch
    \/ WriteFail
    \/ Finish

Spec == Init /\ [][Next]_vars

====
